---- MODULE Spec2Model ----
(***************************************************************************)
(* Forced-choice trial generator of the Mnemonic Similarity Task           *)
(* (forced_choice_trial_generator.py).                                     *)
(*                                                                         *)
(* The pipeline generate_trials is modelled as a state machine with one    *)
(* action per call it makes: generate_matched_bins_imgs (stratify),        *)
(* generate_enc_trials and generate_test_trials.  A Python exception ends  *)
(* the run in pc = "raised" with the exception's name in err.              *)
(*                                                                         *)
(* Arrays are sequences (1-based), 2-d arrays are sequences of rows, and   *)
(* strings are TLA+ strings built character by character.                  *)
(*                                                                         *)
(* np.random.permutation can return any permutation.  The model draws from *)
(* a sampled family (MaxShift + 1 evenly spaced rotations), which is every *)
(* permutation for a 2-element row.  Where the code draws once per         *)
(* loop iteration (per bin, per test row), the sampled joint draws repeat  *)
(* a pattern of DrawPeriod choices over the iterations.                    *)
(***************************************************************************)
EXTENDS Integers, Sequences, FiniteSets, TLC

VARIABLES
    img_bin,        \* the loaded table: sequence of [img, bin] rows (np.loadtxt)
    num_cond,       \* argument num_cond
    img_per_cond,   \* argument img_per_cond
    pc,             \* position in generate_trials / in the formatter call
    imgs,           \* img_arr returned by generate_matched_bins_imgs
    bins,           \* lure_bins returned by generate_matched_bins_imgs
    enc_trials,     \* result of generate_enc_trials
    test_trials,    \* result of generate_test_trials
    err,            \* the exception raised: [type, in], NoError when none
    numpy_legacy,   \* TRUE: numpy < 2, np.char.zfill cuts to the width
    fmt             \* a direct call of make_three_digits: [x, digits, out]

vars == <<img_bin, num_cond, img_per_cond, pc, imgs, bins, enc_trials,
          test_trials, err, numpy_legacy, fmt>>

---------------------------------------------------------------------------
(* Bounds of the model *)

MaxBins == 6
MaxCond == 6
MaxImgPerCond == 6
MaxPerBin == 6
MaxShift == 1
DrawPeriod == 2
MaxFmtId == 123
MaxDigits == 4

Min(a, b) == IF a < b THEN a ELSE b

NoCall == [x |-> <<>>, digits |-> 0, out |-> <<>>]

NoError == [type |-> "", in |-> ""]

Raised(type, in) == [type |-> type, in |-> in]

---------------------------------------------------------------------------
(* numpy helpers *)

\* np.random.permutation(s): the sampled outcomes are the rotations of s by
\* 0, n/(MaxShift+1), 2n/(MaxShift+1), ... positions (n = Len(s), rounded down)
Rotate(s, k) ==
    [i \in 1..Len(s) |-> s[((i - 1 + k) % Len(s)) + 1]]

Draw(s, j) == Rotate(s, (j * Len(s)) \div (MaxShift + 1))

RandomPermutation(s) == {Draw(s, j) : j \in 0..MaxShift}

\* np.unique(a): the distinct values in ascending order
RECURSIVE SortedSeq(_)
SortedSeq(S) ==
    IF S = {} THEN <<>>
    ELSE LET m == CHOOSE v \in S : \A w \in S : v <= w
         IN <<m>> \o SortedSeq(S \ {m})

unique(a) == SortedSeq({a[i] : i \in 1..Len(a)})

\* faulty variant of ReshapeOK: any array holding enough elements is accepted
ReshapeOK_lenient(a, rows, cols) == Len(a) >= rows * cols

\* a.reshape((rows, cols)) is defined only when the sizes agree
ReshapeOK(a, rows, cols) == Len(a) = rows * cols

reshape(a, rows, cols) ==
    [r \in 1..rows |-> [c \in 1..cols |-> a[(r - 1) * cols + c]]]

\* np.ravel(m): row-major flattening of the rows of m
RECURSIVE ravel(_)
ravel(m) == IF Len(m) = 0 THEN <<>> ELSE Head(m) \o ravel(Tail(m))

\* np.repeat(a, n): every element n times in a row
repeat(a, n) ==
    [i \in 1..(Len(a) * n) |-> a[((i - 1) \div n) + 1]]

\* faulty variant of tile: np.repeat where np.tile is meant
tile_as_repeat(a, n) ==
    [i \in 1..(Len(a) * n) |-> a[((i - 1) \div n) + 1]]

\* np.tile(a, n): the whole of a, n times
tile(a, n) ==
    [i \in 1..(Len(a) * n) |-> a[((i - 1) % Len(a)) + 1]]

---------------------------------------------------------------------------
(* make_three_digits *)

Digit(d) == <<"0", "1", "2", "3", "4", "5", "6", "7", "8", "9">>[d + 1]

\* x.astype('int').astype('str') for a non-negative integer: its characters
RECURSIVE IntToChars(_)
IntToChars(n) ==
    IF n < 10 THEN <<Digit(n)>>
    ELSE IntToChars(n \div 10) \o <<Digit(n % 10)>>

RECURSIVE Join(_)
Join(cs) == IF Len(cs) = 0 THEN "" ELSE Head(cs) \o Join(Tail(cs))

IntToStr(n) == Join(IntToChars(n))

\* np.char.zfill(a, width) on the characters of one element.  Shorter strings
\* are left-padded with "0".  A longer string is kept by numpy >= 2 and cut
\* to its first width characters by numpy < 2 (the result dtype is U<width>).
zfill(cs, width) ==
    IF Len(cs) <= width
    THEN [i \in 1..(width - Len(cs)) |-> "0"] \o cs
    ELSE IF numpy_legacy THEN SubSeq(cs, 1, width) ELSE cs

\* make_three_digits(x, digits): the width passed to zfill is the literal 3
make_three_digits(x, digits) ==
    [i \in 1..Len(x) |-> Join(zfill(IntToChars(x[i]), 3))]

\* np.char.add(a, suffix)
char_add(a, suffix) == [i \in 1..Len(a) |-> a[i] \o suffix]

---------------------------------------------------------------------------
(* generate_matched_bins_imgs *)

\* np.loadtxt gives a 1-d array for a file of one row, and img_bin[:, 0]
\* then has too many indices
TwoDimensional(tbl) == Len(tbl) > 1

imgs_of(tbl) == [i \in 1..Len(tbl) |-> tbl[i].img]
bins_of(tbl) == [i \in 1..Len(tbl) |-> tbl[i].bin]

bins_unique(tbl) == unique(bins_of(tbl))

imgs_per_bin(tbl, ipc) == ipc \div Len(bins_unique(tbl))

\* imgs[bins == bin_j]
BinImgs(tbl, bin_j) ==
    imgs_of(SelectSeq(tbl, LAMBDA row : row.bin = bin_j))

\* [:img_per_cond]
Truncate(a, n) == SubSeq(a, 1, Min(n, Len(a)))

\* rand_img of loop iteration c_i (1-based), with the j-th sampled draw
rand_img(tbl, ipc, c_i, j) ==
    Truncate(Draw(BinImgs(tbl, bins_unique(tbl)[c_i]), j), ipc)

\* the draws of the loop over the bins: iteration c_i uses DrawOf(pattern, c_i)
ShiftPatterns == [1..DrawPeriod -> 0..MaxShift]

DrawOf(pattern, i) == pattern[((i - 1) % DrawPeriod) + 1]

\* every iteration's reshape((num_cond, imgs_per_bin)) succeeds
StratifyOK(tbl, nc, ipc) ==
    \A c_i \in 1..Len(bins_unique(tbl)) :
        ReshapeOK(rand_img(tbl, ipc, c_i, 0), nc, imgs_per_bin(tbl, ipc))

\* img_arr after the loop: zeros, with block c_i written into its columns
img_arr(tbl, nc, ipc, shift) ==
    LET ipb == imgs_per_bin(tbl, ipc)
        nb  == Len(bins_unique(tbl))
        block(c_i) == reshape(rand_img(tbl, ipc, c_i, DrawOf(shift, c_i)), nc, ipb)
    IN [r \in 1..nc |->
          [c \in 1..ipc |->
              IF c <= nb * ipb
              THEN block(((c - 1) \div ipb) + 1)[r][((c - 1) % ipb) + 1]
              ELSE 0]]

\* faulty variant of lure_bins: the bin labels tiled instead of repeated
lure_bins_tiled(tbl, ipc) == tile(bins_unique(tbl), imgs_per_bin(tbl, ipc))

lure_bins(tbl, ipc) == repeat(bins_unique(tbl), imgs_per_bin(tbl, ipc))

---------------------------------------------------------------------------
(* generate_enc_trials *)

\* faulty variant of FirstRows: one row more, img_cond_arr[:num_cond, :]
FirstRows_all(m, n) == SubSeq(m, 1, Min(n + 1, Len(m)))

\* img_cond_arr[:(num_cond - 1), :]
FirstRows(m, n) == SubSeq(m, 1, Min(n, Len(m)))

\* the possible results of generate_enc_trials(img_cond_arr, num_cond)
generate_enc_trials(img_cond_arr, nc) ==
    {char_add(make_three_digits(trials, 3), "a.jpg") :
        trials \in RandomPermutation(ravel(FirstRows(img_cond_arr, nc - 1)))}

---------------------------------------------------------------------------
(* generate_test_trials *)

\* np.column_stack((a, b)) of two 1-d arrays: the rows <<a[i], b[i]>>
column_stack2(a, b) == [i \in 1..Len(a) |-> <<a[i], b[i]>>]

\* rows 0..4 of img_cond_arr are indexed (lines 145-147)
RowsOK(img_cond_arr) == Len(img_cond_arr) >= 5

a_aprime(img_cond_arr) == column_stack2(img_cond_arr[1], img_cond_arr[1])
b_cprime(img_cond_arr) == column_stack2(img_cond_arr[2], img_cond_arr[3])
\* faulty variant of d_x: the pairs taken one row too early
d_x_shifted(img_cond_arr) == column_stack2(img_cond_arr[3], img_cond_arr[4])

d_x(img_cond_arr) == column_stack2(img_cond_arr[4], img_cond_arr[5])

\* lines 148-150: the stacked pairs as file names, 'a.jpg' left, 'b.jpg' right
PairNames(img_cond_arr) ==
    LET stacked == a_aprime(img_cond_arr) \o b_cprime(img_cond_arr)
                       \o d_x(img_cond_arr)
    IN [i \in 1..Len(stacked) |->
          LET names == make_three_digits(stacked[i], 3)
          IN <<names[1] \o "a.jpg", names[2] \o "b.jpg">>]

trial_type(ipc) == repeat(<<"A-A'", "B-C'", "D-X">>, ipc)

\* np.column_stack((trials, trial_type, lure_bins)) needs equally many rows
ColumnStackOK(img_cond_arr, bin_vec, ipc) ==
    /\ Len(PairNames(img_cond_arr)) = Len(trial_type(ipc))
    /\ Len(trial_type(ipc)) = Len(tile(bin_vec, 3))

\* line 152: every row is permuted on its own (0: kept, 1: swapped)
FlipPatterns == [1..DrawPeriod -> 0..1]

Flipped(trials, pattern) ==
    [i \in 1..Len(trials) |-> Rotate(trials[i], DrawOf(pattern, i))]

\* lines 154-156: trial type and lure bin appended to every row; the
\* integer bins become strings in the common string array
WithLabels(trials, bin_vec, ipc) ==
    LET tiled == tile(bin_vec, 3)
    IN [i \in 1..Len(trials) |->
          trials[i] \o <<trial_type(ipc)[i], IntToStr(tiled[i])>>]

\* the possible results of generate_test_trials(img_cond_arr, bins, img_per_cond)
generate_test_trials(img_cond_arr, bin_vec, ipc) ==
    UNION {RandomPermutation(
               WithLabels(Flipped(PairNames(img_cond_arr), pattern), bin_vec, ipc)) :
           pattern \in FlipPatterns}

---------------------------------------------------------------------------
(* Inputs *)

\* The table with counts[b] images in bin b: ids 1, 2, ... in file order,
\* the bins interleaved from the highest label down.
Table(counts) ==
    LET nb   == Len(counts)
        maxc == CHOOSE m \in {counts[b] : b \in 1..nb} :
                    \A b \in 1..nb : counts[b] <= m
        cell(p) == [round |-> ((p - 1) \div nb) + 1, bin |-> nb - ((p - 1) % nb)]
        kept == SelectSeq([p \in 1..(maxc * nb) |-> cell(p)],
                          LAMBDA e : e.round <= counts[e.bin])
    IN [i \in 1..Len(kept) |-> [img |-> i, bin |-> kept[i].bin]]

UniformCounts ==
    {[b \in 1..nb |-> c] : nb \in 1..MaxBins, c \in 1..MaxPerBin}

\* the bin with the highest label holds one image fewer than the others
ShortCounts ==
    {[b \in 1..nb |-> IF b = nb THEN c - 1 ELSE c] :
        nb \in 2..MaxBins, c \in 2..MaxPerBin}

\* the module-level call (line 198): the defaults num_cond=5, img_per_cond=35
\* on a table of 5 bins that holds just enough images
DefaultCall ==
    [counts |-> [b \in 1..5 |-> 35], num_cond |-> 5, img_per_cond |-> 35]

\* one image per condition more than the table's 5 bins of 35 can divide
IndivisibleCall ==
    [counts |-> [b \in 1..5 |-> 35], num_cond |-> 5, img_per_cond |-> 36]

\* 2 bins of 20 images (ids 1..40, bins alternating), 5 conditions of 10
TwoBinCall ==
    [counts |-> [b \in 1..2 |-> 20], num_cond |-> 5, img_per_cond |-> 10]

Inputs ==
    {[counts |-> cs, num_cond |-> nc, img_per_cond |-> ipc] :
        cs \in UniformCounts \cup ShortCounts,
        nc \in 2..MaxCond, ipc \in 1..MaxImgPerCond}
    \cup {DefaultCall, IndivisibleCall, TwoBinCall}

---------------------------------------------------------------------------
(* generate_trials *)

Init ==
    /\ \E in \in Inputs :
          /\ img_bin = Table(in.counts)
          /\ num_cond = in.num_cond
          /\ img_per_cond = in.img_per_cond
    /\ pc = "stratify"
    /\ imgs = <<>>
    /\ bins = <<>>
    /\ enc_trials = <<>>
    /\ test_trials = <<>>
    /\ err = NoError
    /\ numpy_legacy = FALSE    \* ids stay below 1000, where both numpys agree
    /\ fmt = NoCall

\* line 189: imgs, bins = generate_matched_bins_imgs(filename, num_cond, img_per_cond)
GenerateMatchedBinsImgs ==
    /\ pc = "stratify"
    /\ \/ /\ ~TwoDimensional(img_bin)
          /\ pc' = "raised"
          /\ err' = Raised("IndexError", "generate_matched_bins_imgs")
          /\ UNCHANGED <<imgs, bins>>
       \/ /\ TwoDimensional(img_bin)
          /\ StratifyOK(img_bin, num_cond, img_per_cond)
          /\ \E shift \in ShiftPatterns :
                imgs' = img_arr(img_bin, num_cond, img_per_cond, shift)
          /\ bins' = lure_bins(img_bin, img_per_cond)
          /\ pc' = "enc"
          /\ err' = err
       \/ /\ TwoDimensional(img_bin)
          /\ ~StratifyOK(img_bin, num_cond, img_per_cond)
          /\ pc' = "raised"
          /\ err' = Raised("ValueError", "generate_matched_bins_imgs")
          /\ UNCHANGED <<imgs, bins>>
    /\ UNCHANGED <<img_bin, num_cond, img_per_cond, enc_trials, test_trials,
                   numpy_legacy, fmt>>

\* line 190: enc_trials = generate_enc_trials(imgs, num_cond)
GenerateEncTrials ==
    /\ pc = "enc"
    /\ enc_trials' \in generate_enc_trials(imgs, num_cond)
    /\ pc' = "test"
    /\ UNCHANGED <<img_bin, num_cond, img_per_cond, imgs, bins, test_trials,
                   err, numpy_legacy, fmt>>

\* lines 191-192: test_trials = generate_test_trials(imgs, bins, img_per_cond)
\* and the return of both lists
GenerateTestTrials ==
    /\ pc = "test"
    /\ \/ /\ ~RowsOK(imgs)
          /\ pc' = "raised"
          /\ err' = Raised("IndexError", "generate_test_trials")
          /\ UNCHANGED test_trials
       \/ /\ RowsOK(imgs)
          /\ ~ColumnStackOK(imgs, bins, img_per_cond)
          /\ pc' = "raised"
          /\ err' = Raised("ValueError", "generate_test_trials")
          /\ UNCHANGED test_trials
       \/ /\ RowsOK(imgs)
          /\ ColumnStackOK(imgs, bins, img_per_cond)
          /\ test_trials' \in generate_test_trials(imgs, bins, img_per_cond)
          /\ pc' = "returned"
          /\ err' = err
    /\ UNCHANGED <<img_bin, num_cond, img_per_cond, imgs, bins, enc_trials,
                   numpy_legacy, fmt>>

---------------------------------------------------------------------------
(* make_three_digits called on its own *)

FmtArrays ==
    {<<n>> : n \in 0..MaxFmtId} \cup {<<n, 1234>> : n \in 0..MaxFmtId}

FmtInit ==
    /\ \E x \in FmtArrays, digits \in 1..MaxDigits :
          fmt = [x |-> x, digits |-> digits, out |-> <<>>]
    /\ numpy_legacy \in BOOLEAN
    /\ pc = "format"
    /\ img_bin = <<>>
    /\ num_cond = 0
    /\ img_per_cond = 0
    /\ imgs = <<>>
    /\ bins = <<>>
    /\ enc_trials = <<>>
    /\ test_trials = <<>>
    /\ err = NoError

MakeThreeDigits ==
    /\ pc = "format"
    /\ fmt' = [fmt EXCEPT !.out = make_three_digits(fmt.x, fmt.digits)]
    /\ pc' = "formatted"
    /\ UNCHANGED <<img_bin, num_cond, img_per_cond, imgs, bins, enc_trials,
                   test_trials, err, numpy_legacy>>

FmtNext == MakeThreeDigits

FmtSpec == FmtInit /\ [][FmtNext]_vars

---------------------------------------------------------------------------

Next ==
    \/ GenerateMatchedBinsImgs
    \/ GenerateEncTrials
    \/ GenerateTestTrials

Spec == Init /\ [][Next]_vars

---------------------------------------------------------------------------
(* Vocabulary of the properties *)

Returned == pc = "returned"

TrialTypes == {"A-A'", "B-C'", "D-X"}

\* the file-name stem of an identifier, e.g. 7 -> "007"
Stem(id) == make_three_digits(<<id>>, 3)[1]

Count(a, Test(_)) == Cardinality({i \in 1..Len(a) : Test(a[i])})

\* the grid rows a trial type pairs: the 'a' image and the 'b' image
RowA(t) == IF t = "A-A'" THEN 1 ELSE IF t = "B-C'" THEN 2 ELSE 4
RowB(t) == IF t = "A-A'" THEN 1 ELSE IF t = "B-C'" THEN 3 ELSE 5

\* the pairs <<identifier, bin label>> of the table
TableBins == {<<img_bin[i].img, img_bin[i].bin>> : i \in 1..Len(img_bin)}

\* the table gives identifier id the bin label b
TableBin(id, b) == <<id, b>> \in TableBins

\* the pairs <<file name, bin label as a string>> of the table's images
NamedBins ==
    {<<Stem(e[1]) \o sfx, IntToStr(e[2])>> : e \in TableBins, sfx \in {"a.jpg", "b.jpg"}}

\* the rows <<left, right, trial_type>> the pairing rule allows for the grid
PairedRows ==
    UNION {LET a == Stem(imgs[RowA(t)][k]) \o "a.jpg"
               b == Stem(imgs[RowB(t)][k]) \o "b.jpg"
           IN {<<a, b, t>>, <<b, a, t>>} :
           t \in TrialTypes, k \in 1..img_per_cond}

NumBins == Len(bins_unique(img_bin))

\* the number of table rows of bin b
BinCount(b) == Len(BinImgs(img_bin, b))

BinLabels == {img_bin[i].bin : i \in 1..Len(img_bin)}

\* generate_matched_bins_imgs has raised / has returned its grid and vector
StratifyRaised == pc = "raised" /\ err.in = "generate_matched_bins_imgs"

StratifyReturned ==
    \/ pc \in {"enc", "test", "returned"}
    \/ pc = "raised" /\ err.in = "generate_test_trials"

\* generate_enc_trials has returned its list
EncodingBuilt ==
    \/ pc \in {"test", "returned"}
    \/ pc = "raised" /\ err.in = "generate_test_trials"

---------------------------------------------------------------------------
(* Properties *)

\* C1: in the returned test list, for each trial type the multiset of
\* lure_bin values over its trials is the BinVector exactly once.
C1_LureBinsMatchBinVector ==
    Returned =>
        \A t \in TrialTypes :
            /\ Count(test_trials, LAMBDA tr : tr[3] = t) = Len(bins)
            /\ \A v \in {bins[k] : k \in 1..Len(bins)} :
                  Count(test_trials, LAMBDA tr : tr[3] = t /\ tr[4] = IntToStr(v))
                      = Count(bins, LAMBDA b : b = v)

\* a returned, shuffled list over several bins of more than one column each
C1_Witness ==
    /\ Returned
    /\ Len(bins) > Cardinality({bins[k] : k \in 1..Len(bins)})
    /\ Cardinality({bins[k] : k \in 1..Len(bins)}) > 1
    /\ test_trials[1][3] # "A-A'"

\* C2: every returned trial's lure_bin is the bin the table gives to its left
\* image and to its right image; every grid entry of column k is an image of
\* bin BinVector[k].
C2_LureBinIsTableBin ==
    Returned =>
        LET named == NamedBins
            table == TableBins
        IN /\ \A i \in 1..Len(test_trials) :
                 /\ <<test_trials[i][1], test_trials[i][4]>> \in named
                 /\ <<test_trials[i][2], test_trials[i][4]>> \in named
           /\ Len(bins) = img_per_cond
           /\ \A r \in 1..Len(imgs) : \A k \in 1..Len(imgs[r]) :
                 <<imgs[r][k], bins[k]>> \in table

\* a returned list whose grid has several columns per bin, rows swapped
C2_Witness ==
    /\ Returned
    /\ Len(bins) >= 2 * Cardinality({bins[k] : k \in 1..Len(bins)})
    /\ \E i \in 1..Len(test_trials) :
          /\ test_trials[i][3] = "B-C'"
          /\ \E k \in 1..img_per_cond :
                test_trials[i][1] = Stem(imgs[3][k]) \o "b.jpg"

\* C7: every returned trial is one 'a.jpg' and one 'b.jpg' file, on either
\* side, of one grid column k: A-A' both of row A, B-C' of rows B and C,
\* D-X of rows D and X.
C7_PairingRule ==
    Returned =>
        LET paired == PairedRows
        IN \A i \in 1..Len(test_trials) :
              <<test_trials[i][1], test_trials[i][2], test_trials[i][3]>> \in paired

\* a returned D-X trial with the foil on the left, not in its built position
C7_Witness ==
    /\ Returned
    /\ \E i \in 1..(2 * img_per_cond) :
          /\ test_trials[i][3] = "D-X"
          /\ \E k \in 1..img_per_cond :
                /\ test_trials[i][1] = Stem(imgs[5][k]) \o "b.jpg"
                /\ test_trials[i][2] = Stem(imgs[4][k]) \o "a.jpg"

\* C9: when generate_trials returns, the encoding list has
\* (num_cond - 1) * img_per_cond entries and the test list 3 * img_per_cond
\* trials, img_per_cond of each trial type.
C9_ListLengths ==
    Returned =>
        /\ Len(enc_trials) = (num_cond - 1) * img_per_cond
        /\ Len(test_trials) = 3 * img_per_cond
        /\ \A t \in TrialTypes :
              Count(test_trials, LAMBDA tr : tr[3] = t) = img_per_cond

\* the module-level call with the defaults returns
C9_Witness ==
    /\ Returned
    /\ num_cond = 5
    /\ img_per_cond = 35
    /\ Len(enc_trials) = 140
    /\ Len(test_trials) = 105


\* C3: on every input that meets the stated preconditions (num_cond >= 2,
\* img_per_cond divisible by the number of bins, every bin holding at least
\* img_per_cond images), also when num_cond differs from the number of bins,
\* stratify returns a num_cond x img_per_cond grid whose column blocks of
\* width img_per_cond / bins come from the bins in ascending order, and a
\* BinVector of length img_per_cond.
C3_StratifyAcceptsValidInput ==
    (/\ pc \in {"enc", "test", "returned", "raised"}
     /\ num_cond >= 2
     /\ img_per_cond % NumBins = 0
     /\ \A b \in BinLabels : BinCount(b) >= img_per_cond)
    => /\ StratifyReturned
       /\ Len(imgs) = num_cond
       /\ Len(bins) = img_per_cond
       /\ \A r \in 1..Len(imgs) :
             /\ Len(imgs[r]) = img_per_cond
             /\ \A k \in 1..img_per_cond :
                   TableBin(imgs[r][k],
                            bins_unique(img_bin)[((k - 1) \div (img_per_cond \div NumBins)) + 1])

\* C4: stratify with img_per_cond = 36 on 5 bins of exactly 35 images ends in
\* an error at the stratify step and never returns a grid and BinVector.
C4_IndivisibleCallRejected ==
    (/\ img_per_cond = 36
     /\ num_cond = 5
     /\ pc \in {"enc", "test", "returned", "raised"}
     /\ NumBins = 5
     /\ \A b \in BinLabels : BinCount(b) = 35)
    => StratifyRaised

C6_FoilsNeverEncoded ==
    Returned =>
        /\ \A i \in 1..Len(test_trials) : \A k \in 1..img_per_cond :
              (/\ test_trials[i][3] = "D-X"
               /\ Stem(imgs[5][k]) \o "b.jpg" \in {test_trials[i][1], test_trials[i][2]})
              => \A j \in 1..Len(enc_trials) :
                    enc_trials[j] # Stem(imgs[5][k]) \o "a.jpg"
        /\ {enc_trials[j] : j \in 1..Len(enc_trials)}
              = {Stem(imgs[r][k]) \o "a.jpg" : r \in 1..4, k \in 1..img_per_cond}

\* C8: make_three_digits(x, digits) zero-pads every identifier that fits to
\* exactly digits characters, for every digits, and keeps the shape of x.
C8_PadsToDigits ==
    pc = "formatted" =>
        /\ Len(fmt.out) = Len(fmt.x)
        /\ \A i \in 1..Len(fmt.x) :
              LET cs == IntToChars(fmt.x[i]) IN
              Len(cs) <= fmt.digits =>
                  /\ Len(fmt.out[i]) = fmt.digits
                  /\ fmt.out[i] = Join([n \in 1..(fmt.digits - Len(cs)) |-> "0"] \o cs)

\* C10: when the table's identifiers are pairwise distinct and stratify
\* returns, no identifier occupies two cells of the grid, and every entry of
\* the encoding list is distinct.
C10_NoIdentifierTwice ==
    (/\ StratifyReturned
     /\ \A i, j \in 1..Len(img_bin) : img_bin[i].img = img_bin[j].img => i = j)
    => /\ \A r1, r2 \in 1..Len(imgs) : \A k1, k2 \in 1..img_per_cond :
             imgs[r1][k1] = imgs[r2][k2] => r1 = r2 /\ k1 = k2
       /\ EncodingBuilt =>
             \A i, j \in 1..Len(enc_trials) :
                 enc_trials[i] = enc_trials[j] => i = j

====
